---- MODULE Spec2Model ----
(***************************************************************************)
(* Model of the data reconciliation and aggregation pipeline               *)
(* (src/src/data_loader.py) and of the anomaly scoring and explanation     *)
(* engine (src/src/models.py).                                             *)
(*                                                                         *)
(* A DataFrame is a record [kcols, vcols, rows]:                           *)
(*   kcols  the key columns present (a subset of KeyCols),                 *)
(*   vcols  the names of the other columns, in column order,               *)
(*   rows   a sequence of records [date, state, district, pincode, vals],  *)
(*          vals[i] being the cell of column vcols[i].                     *)
(* A key field whose column is absent holds the placeholder NA / NaN and   *)
(* is never read.  Missing cells are NA (text columns) and NaN (numeric    *)
(* columns).  Column names, state names and raw dates are strings and are  *)
(* processed character by character, as the Python code does.              *)
(***************************************************************************)
EXTENDS Integers, Sequences, FiniteSets, TLC

VARIABLES
    pc,          \* "start" | "done": has the entry point of the run been called
    outcome,     \* "none" | "returned" | "raised": how the entry point ended
    dataset,     \* load_processed_data: category -> the files of its folder
    raw,         \* load_processed_data: category -> load_files_from_folder(...)
    clean,       \* load_processed_data: category -> clean_dataframe(...)
    agg,         \* load_processed_data: category -> aggregate_data(...)
    merged,      \* load_processed_data: the table returned
    state_in,    \* normalize_state_names: the table passed in
    state_out,   \* normalize_state_names: the table returned
    model_df,    \* load_or_train_model / generate_anomaly_explanations: argument
    scored       \* load_or_train_model / generate_anomaly_explanations: result

vars == <<pc, outcome, dataset, raw, clean, agg, merged, state_in, state_out,
         model_df, scored>>

----------------------------------------------------------------------------
(* Missing values *)

\* NaN in a numeric cell (counts and pincodes are non-negative in the data)
NaN == 0 - 1
\* NaN in a text cell
NA == "<NA>"
\* NaT: a date that pandas could not parse (errors='coerce')
NaT == <<0, 0, 0>>

----------------------------------------------------------------------------
(* Python string operations *)

Char(s, i) == SubSeq(s, i, i)

\* Python: sub in s
Contains(s, sub) ==
    \E i \in 1..(Len(s) - Len(sub) + 1) : SubSeq(s, i, i + Len(sub) - 1) = sub

LowerLetters == "abcdefghijklmnopqrstuvwxyz"
UpperLetters == "ABCDEFGHIJKLMNOPQRSTUVWXYZ"
Digits == "0123456789"
Whitespace == {" ", "\t", "\n", "\r"}

RECURSIVE CharMap(_, _, _)
\* the function taking the i-th character of `from` to the i-th of `to`
CharMap(from, to, i) ==
    IF i > Len(from) THEN [c \in {} |-> c]
    ELSE (Char(from, i) :> Char(to, i)) @@ CharMap(from, to, i + 1)

UpperOf == CharMap(LowerLetters, UpperLetters, 1)
LowerOf == CharMap(UpperLetters, LowerLetters, 1)

RECURSIVE DigitMap(_)
DigitMap(i) ==
    IF i > Len(Digits) THEN [c \in {} |-> 0]
    ELSE (Char(Digits, i) :> (i - 1)) @@ DigitMap(i + 1)

\* the value of each decimal digit
DigitValue == DigitMap(1)

IsLower(c) == c \in DOMAIN UpperOf
IsUpper(c) == c \in DOMAIN LowerOf
IsCased(c) == IsLower(c) \/ IsUpper(c)
IsDigit(c) == c \in DOMAIN DigitValue

ToUpper(c) == IF IsLower(c) THEN UpperOf[c] ELSE c

ToLower(c) == IF IsUpper(c) THEN LowerOf[c] ELSE c

\* Python: s.strip()
Strip(s) ==
    LET keep == {i \in 1..Len(s) : Char(s, i) \notin Whitespace}
    IN  IF keep = {} THEN ""
        ELSE SubSeq(s, CHOOSE i \in keep : \A j \in keep : i <= j,
                       CHOOSE i \in keep : \A j \in keep : i >= j)

RECURSIVE LowerFrom(_, _)
LowerFrom(s, i) ==
    IF i > Len(s) THEN "" ELSE ToLower(Char(s, i)) \o LowerFrom(s, i + 1)

\* Python: s.lower()
Lower(s) == LowerFrom(s, 1)

RECURSIVE TitleFrom(_, _, _)
TitleFrom(s, i, prevCased) ==
    IF i > Len(s) THEN ""
    ELSE LET c == Char(s, i)
         IN  (IF IsCased(c)
              THEN (IF prevCased THEN ToLower(c) ELSE ToUpper(c))
              ELSE c) \o TitleFrom(s, i + 1, IsCased(c))

\* Python: s.title(): a cased character is upper-cased when it follows an
\* uncased one (or starts the string) and lower-cased otherwise
Title(s) == TitleFrom(s, 1, FALSE)

RECURSIVE ToIntFrom(_, _, _)
ToIntFrom(s, i, acc) ==
    IF i > Len(s) THEN acc
    ELSE ToIntFrom(s, i + 1, 10 * acc + DigitValue[Char(s, i)])

AllDigits(s) == \A i \in 1..Len(s) : IsDigit(Char(s, i))

\* int(s) for a string of decimal digits
ToInt(s) == ToIntFrom(s, 1, 0)

----------------------------------------------------------------------------
(* Sequences *)

RECURSIVE MapSeq(_, _)
\* [Op(x) for x in seq]
MapSeq(Op(_), seq) ==
    IF Len(seq) = 0 THEN <<>> ELSE <<Op(Head(seq))>> \o MapSeq(Op, Tail(seq))

RECURSIVE Range(_)
\* <<1, ..., n>>
Range(n) == IF n = 0 THEN <<>> ELSE Append(Range(n - 1), n)

----------------------------------------------------------------------------
(* normalize_state_names *)

state_mapping ==
    ("West Bengal" :> "West Bengal")
 @@ ("West Bangal" :> "West Bengal")
 @@ ("Wb" :> "West Bengal")
 @@ ("Westbengal" :> "West Bengal")
 @@ ("Odisha" :> "Odisha")
 @@ ("Orissa" :> "Odisha")
 @@ ("Orisa" :> "Odisha")
 @@ ("Jammu And Kashmir" :> "Jammu and Kashmir")
 @@ ("Jammu & Kashmir" :> "Jammu and Kashmir")
 @@ ("J&K" :> "Jammu and Kashmir")
 @@ ("Jnk" :> "Jammu and Kashmir")
 @@ ("Andaman And Nicobar Islands" :> "Andaman and Nicobar Islands")
 @@ ("Andaman & Nicobar Islands" :> "Andaman and Nicobar Islands")
 @@ ("Andaman And Nicobar" :> "Andaman and Nicobar Islands")
 @@ ("A & N Islands" :> "Andaman and Nicobar Islands")
 @@ ("Dadra And Nagar Haveli" :> "Dadra and Nagar Haveli and Daman and Diu")
 @@ ("Dadra & Nagar Haveli" :> "Dadra and Nagar Haveli and Daman and Diu")
 @@ ("Daman And Diu" :> "Dadra and Nagar Haveli and Daman and Diu")
 @@ ("Daman & Diu" :> "Dadra and Nagar Haveli and Daman and Diu")
 @@ ("DNH" :> "Dadra and Nagar Haveli and Daman and Diu")
 @@ ("D&NH" :> "Dadra and Nagar Haveli and Daman and Diu")
 @@ ("Delhi" :> "NCT of Delhi")
 @@ ("New Delhi" :> "NCT of Delhi")
 @@ ("Nct Of Delhi" :> "NCT of Delhi")
 @@ ("Delhi Nct" :> "NCT of Delhi")
 @@ ("Puducherry" :> "Puducherry")
 @@ ("Pondicherry" :> "Puducherry")
 @@ ("Pondi" :> "Puducherry")
 @@ ("Uttarakhand" :> "Uttarakhand")
 @@ ("Uttaranchal" :> "Uttarakhand")
 @@ ("Uk" :> "Uttarakhand")
 @@ ("Uttar Pradesh" :> "Uttar Pradesh")
 @@ ("Up" :> "Uttar Pradesh")
 @@ ("Uttarpradesh" :> "Uttar Pradesh")
 @@ ("Telangana" :> "Telangana")
 @@ ("Telengana" :> "Telangana")
 @@ ("Chhattisgarh" :> "Chhattisgarh")
 @@ ("Chhatisgarh" :> "Chhattisgarh")
 @@ ("Cg" :> "Chhattisgarh")
 @@ ("Maharashtra" :> "Maharashtra")
 @@ ("Mh" :> "Maharashtra")
 @@ ("Madhya Pradesh" :> "Madhya Pradesh")
 @@ ("Mp" :> "Madhya Pradesh")
 @@ ("Tamil Nadu" :> "Tamil Nadu")
 @@ ("Tamilnadu" :> "Tamil Nadu")
 @@ ("Tn" :> "Tamil Nadu")
 @@ ("Andhra Pradesh" :> "Andhra Pradesh")
 @@ ("Andhrapradesh" :> "Andhra Pradesh")
 @@ ("Ap" :> "Andhra Pradesh")
 @@ ("Arunachal Pradesh" :> "Arunachal Pradesh")
 @@ ("Arunachalpradesh" :> "Arunachal Pradesh")
 @@ ("Himachal Pradesh" :> "Himachal Pradesh")
 @@ ("Himachalpradesh" :> "Himachal Pradesh")
 @@ ("Hp" :> "Himachal Pradesh")
 @@ ("Karnataka" :> "Karnataka")
 @@ ("Ka" :> "Karnataka")
 @@ ("Kerala" :> "Kerala")
 @@ ("Kl" :> "Kerala")
 @@ ("Ladakh" :> "Ladakh")
 @@ ("Lakshadweep" :> "Lakshadweep")
 @@ ("Goa" :> "Goa")
 @@ ("Gujarat" :> "Gujarat")
 @@ ("Gujrat" :> "Gujarat")
 @@ ("Haryana" :> "Haryana")
 @@ ("Punjab" :> "Punjab")
 @@ ("Rajasthan" :> "Rajasthan")
 @@ ("Rajsthan" :> "Rajasthan")
 @@ ("Sikkim" :> "Sikkim")
 @@ ("Tripura" :> "Tripura")
 @@ ("Assam" :> "Assam")
 @@ ("Asam" :> "Assam")
 @@ ("Bihar" :> "Bihar")
 @@ ("Chandigarh" :> "Chandigarh")
 @@ ("Jharkhand" :> "Jharkhand")
 @@ ("Manipur" :> "Manipur")
 @@ ("Meghalaya" :> "Meghalaya")
 @@ ("Mizoram" :> "Mizoram")
 @@ ("Nagaland" :> "Nagaland")

\* the 36 canonical State/UT names: the values of state_mapping
CanonicalStates == {state_mapping[k] : k \in DOMAIN state_mapping}

\* df['state'].astype(str): a missing value becomes the text 'nan'
AsTypeStr(v) == IF v = NA THEN "nan" ELSE v

\* Series.replace(state_mapping): "if key exists, replace; else keep original"
ReplaceState(s) == IF s \in DOMAIN state_mapping THEN state_mapping[s] ELSE s

\* line 40 without .str.strip()
NormalizeStateNoStrip(v) == ReplaceState(Title(AsTypeStr(v)))

\* one cell of df['state'] through lines 40 and 157
NormalizeState(v) == ReplaceState(Title(Strip(AsTypeStr(v))))

normalize_state_names(df) ==
    IF "state" \notin df.kcols THEN df
    ELSE [df EXCEPT !.rows =
             MapSeq(LAMBDA r : [r EXCEPT !.state = NormalizeState(r.state)], df.rows)]

----------------------------------------------------------------------------
(* DataFrames *)

\* group_cols / join_keys: the grouping key, in the code's order
KeyCols == <<"date", "state", "district", "pincode">>

KeySet == {KeyCols[i] : i \in 1..Len(KeyCols)}

\* pd.DataFrame(): no columns, no rows
EmptyDF == [kcols |-> {}, vcols |-> <<>>, rows |-> <<>>]

\* df.empty: some axis has length 0
IsEmpty(df) == Len(df.rows) = 0 \/ (df.kcols = {} /\ Len(df.vcols) = 0)

InSeq(seq, x) == \E i \in 1..Len(seq) : seq[i] = x

\* position of the first column named x
IndexOf(seq, x) ==
    CHOOSE i \in 1..Len(seq) : seq[i] = x /\ \A j \in 1..(i - 1) : seq[j] # x

RECURSIVE Flatten(_)
Flatten(seqs) ==
    IF Len(seqs) = 0 THEN <<>> ELSE Head(seqs) \o Flatten(Tail(seqs))

RECURSIVE SumSeq(_)
SumSeq(seq) == IF Len(seq) = 0 THEN 0 ELSE Head(seq) + SumSeq(Tail(seq))

\* a cell as pandas' sum() counts it: NaN is skipped
NaNToZero(v) == IF v = NaN THEN 0 ELSE v

\* the grouping key of a row over the key columns cols; an absent column
\* contributes a constant, so rows are compared on the present columns only
KeyOf(row, cols) ==
    << IF "date" \in cols THEN row.date ELSE NaT,
       IF "state" \in cols THEN row.state ELSE NA,
       IF "district" \in cols THEN row.district ELSE NA,
       IF "pincode" \in cols THEN row.pincode ELSE NaN >>

\* some key cell of the row is missing (NaN / NaT) in a present column
KeyHasNaN(row, cols) ==
    \/ "date" \in cols /\ row.date = NaT
    \/ "state" \in cols /\ row.state = NA
    \/ "district" \in cols /\ row.district = NA
    \/ "pincode" \in cols /\ row.pincode = NaN

----------------------------------------------------------------------------
(* load_files_from_folder *)

\* df.columns = [c.strip().lower() for c in df.columns]
StandardizeHeader(c) == Lower(Strip(c))

\* pd.read_csv(f) followed by the header standardization.  A file is
\* [readable, khdr, vhdr, rows]: khdr maps each key column the file has to
\* its header text, vhdr lists the header texts of its other columns.  A key
\* column whose standardized header is not the key's name is an ordinary
\* text column that no later step reads; it is left out of the table.
ReadCsv(f) ==
    LET kc == {k \in DOMAIN f.khdr : StandardizeHeader(f.khdr[k]) = k}
    IN  [kcols |-> kc,
         vcols |-> MapSeq(StandardizeHeader, f.vhdr),
         rows  |-> MapSeq(LAMBDA r :
                      [date     |-> IF "date" \in kc THEN r.date ELSE NA,
                       state    |-> IF "state" \in kc THEN r.state ELSE NA,
                       district |-> IF "district" \in kc THEN r.district ELSE NA,
                       pincode  |-> IF "pincode" \in kc THEN r.pincode ELSE NaN,
                       vals     |-> r.vals], f.rows)]

\* the rows of df laid out on the columns (kcols, vcols) of a concatenation:
\* a column df does not have is NaN
Reindex(df, kcols, vcols) ==
    MapSeq(LAMBDA r :
        [date     |-> IF "date" \in df.kcols THEN r.date ELSE NA,
         state    |-> IF "state" \in df.kcols THEN r.state ELSE NA,
         district |-> IF "district" \in df.kcols THEN r.district ELSE NA,
         pincode  |-> IF "pincode" \in df.kcols THEN r.pincode ELSE NaN,
         vals     |-> MapSeq(LAMBDA c : IF InSeq(df.vcols, c)
                                        THEN r.vals[IndexOf(df.vcols, c)]
                                        ELSE NaN, vcols)], df.rows)

\* pd.concat([a, b], ignore_index=True): the union of the columns in order
\* of first appearance, the rows of a followed by the rows of b
Concat2(a, b) ==
    LET kc == a.kcols \cup b.kcols
        vc == a.vcols \o SelectSeq(b.vcols, LAMBDA n : ~InSeq(a.vcols, n))
    IN  [kcols |-> kc, vcols |-> vc,
         rows  |-> Reindex(a, kc, vc) \o Reindex(b, kc, vc)]

RECURSIVE ConcatFrom(_, _, _)
ConcatFrom(dfs, i, acc) ==
    IF i > Len(dfs) THEN acc ELSE ConcatFrom(dfs, i + 1, Concat2(acc, dfs[i]))

\* pd.concat(dfs, ignore_index=True) of a non-empty list
Concat(dfs) == ConcatFrom(dfs, 2, dfs[1])

\* files: the sequence of files glob found in the folder
load_files_from_folder(files) ==
    IF Len(files) = 0 THEN EmptyDF
    ELSE LET ok  == SelectSeq(files, LAMBDA f : f.readable)
             dfs == MapSeq(ReadCsv, ok)
         IN  IF Len(dfs) = 0 THEN EmptyDF ELSE Concat(dfs)

----------------------------------------------------------------------------
(* clean_dataframe *)

IsLeap(y) == (y % 4 = 0 /\ y % 100 # 0) \/ y % 400 = 0

DaysInMonth(m, y) ==
    IF m = 2 THEN (IF IsLeap(y) THEN 29 ELSE 28)
    ELSE IF m \in {4, 6, 9, 11} THEN 30 ELSE 31

\* pd.to_datetime(s, format='%d-%m-%Y', errors='coerce') of one cell:
\* <<year, month, day>>, or NaT when s is not day-month-year (1-2 digits,
\* 1-2 digits, 4 digits) of a calendar date a Timestamp can hold
ParseDate(s) ==
    LET dashes == {i \in 1..Len(s) : Char(s, i) = "-"}
    IN  IF Cardinality(dashes) # 2 THEN NaT
        ELSE LET p1 == CHOOSE i \in dashes : \A j \in dashes : i <= j
                 p2 == CHOOSE i \in dashes : \A j \in dashes : i >= j
                 ds == SubSeq(s, 1, p1 - 1)
                 ms == SubSeq(s, p1 + 1, p2 - 1)
                 ys == SubSeq(s, p2 + 1, Len(s))
             IN  IF ~(/\ Len(ds) \in 1..2 /\ AllDigits(ds)
                      /\ Len(ms) \in 1..2 /\ AllDigits(ms)
                      /\ Len(ys) = 4 /\ AllDigits(ys))
                 THEN NaT
                 ELSE LET d == ToInt(ds)
                          m == ToInt(ms)
                          y == ToInt(ys)
                      IN  IF /\ m \in 1..12
                             /\ d \in 1..DaysInMonth(m, y)
                             /\ y \in 1678..2261
                          THEN <<y, m, d>>
                          ELSE NaT

\* lines 165-169 without the dropna
ParseAndKeepDates(df) ==
    IF "date" \notin df.kcols
    THEN [df EXCEPT !.rows = MapSeq(LAMBDA r : [r EXCEPT !.date = NaT], df.rows)]
    ELSE [df EXCEPT !.rows = MapSeq(LAMBDA r : [r EXCEPT !.date = ParseDate(r.date)], df.rows)]

\* lines 165-169: parse the dates, drop the rows whose date is NaT
ParseAndDropDates(df) ==
    IF "date" \notin df.kcols
    THEN [df EXCEPT !.rows = MapSeq(LAMBDA r : [r EXCEPT !.date = NaT], df.rows)]
    ELSE LET parsed == MapSeq(LAMBDA r : [r EXCEPT !.date = ParseDate(r.date)], df.rows)
         IN  [df EXCEPT !.rows = SelectSeq(parsed, LAMBDA r : r.date # NaT)]

\* the rules of lines 184-186 without the test for 'age'
RenameColAgeless(c, data_type) ==
    IF data_type = "enrolment" THEN
        IF Contains(c, "0") /\ Contains(c, "5") THEN "enrol_0_5"
        ELSE IF Contains(c, "5") /\ Contains(c, "17") THEN "enrol_5_17"
        ELSE IF Contains(c, "18") THEN "enrol_18_plus"
        ELSE c
    ELSE IF data_type = "biometric" THEN
        IF Contains(c, "0") /\ Contains(c, "5") THEN "bio_0_5"
        ELSE IF Contains(c, "5") /\ Contains(c, "17") THEN "bio_5_17"
        ELSE IF Contains(c, "17") \/ Contains(c, "18") THEN "bio_18_plus"
        ELSE c
    ELSE IF data_type = "demographic" THEN
        IF Contains(c, "0") /\ Contains(c, "5") THEN "demo_0_5"
        ELSE IF Contains(c, "5") /\ Contains(c, "17") THEN "demo_5_17"
        ELSE IF Contains(c, "17") \/ Contains(c, "18") THEN "demo_18_plus"
        ELSE c
    ELSE c

\* the rename_map entry of column c, or c itself when the loop adds none
RenameCol(c, data_type) ==
    IF data_type = "enrolment" THEN
        IF Contains(c, "0") /\ Contains(c, "5") /\ Contains(c, "age") THEN "enrol_0_5"
        ELSE IF Contains(c, "5") /\ Contains(c, "17") /\ Contains(c, "age") THEN "enrol_5_17"
        ELSE IF Contains(c, "18") /\ Contains(c, "age") THEN "enrol_18_plus"
        ELSE c
    ELSE IF data_type = "biometric" THEN
        IF Contains(c, "0") /\ Contains(c, "5") THEN "bio_0_5"
        ELSE IF Contains(c, "5") /\ Contains(c, "17") THEN "bio_5_17"
        ELSE IF Contains(c, "17") \/ Contains(c, "18") THEN "bio_18_plus"
        ELSE c
    ELSE IF data_type = "demographic" THEN
        IF Contains(c, "0") /\ Contains(c, "5") THEN "demo_0_5"
        ELSE IF Contains(c, "5") /\ Contains(c, "17") THEN "demo_5_17"
        ELSE IF Contains(c, "17") \/ Contains(c, "18") THEN "demo_18_plus"
        ELSE c
    ELSE c

\* df.rename(columns=rename_map) over every column; a key column that the
\* loop renamed would stop being a key column
RenameColumns(df, data_type) ==
    [df EXCEPT !.kcols = {k \in df.kcols : RenameCol(k, data_type) = k},
               !.vcols = MapSeq(LAMBDA c : RenameCol(c, data_type), df.vcols)]

clean_dataframe(df, data_type) ==
    IF IsEmpty(df) THEN df
    ELSE RenameColumns(normalize_state_names(ParseAndDropDates(df)), data_type)

----------------------------------------------------------------------------
(* aggregate_data *)

\* value_cols: the positions of the columns whose name contains the prefix
\* (no key column's name contains one)
ValueCols(df, prefix) ==
    SelectSeq(Range(Len(df.vcols)), LAMBDA i : Contains(df.vcols[i], prefix))

\* the rows groupby keeps: dropna=True leaves out a row with a missing key cell
GroupedRows(df) == SelectSeq(df.rows, LAMBDA r : ~KeyHasNaN(r, df.kcols))

RECURSIVE DistinctKeys(_, _, _)
DistinctKeys(rows, cols, acc) ==
    IF Len(rows) = 0 THEN acc
    ELSE LET k == KeyOf(Head(rows), cols)
         IN  DistinctKeys(Tail(rows), cols, IF InSeq(acc, k) THEN acc ELSE Append(acc, k))

\* .sum() of column position c over the rows of one group
GroupSum(rows, cols, k, c) ==
    SumSeq(MapSeq(LAMBDA r : IF KeyOf(r, cols) = k THEN NaNToZero(r.vals[c]) ELSE 0, rows))

\* df.groupby(group_cols)[value_cols].sum().reset_index()
GroupBySum(df, vc) ==
    LET rows == GroupedRows(df)
        keys == DistinctKeys(rows, df.kcols, <<>>)
    IN  [kcols |-> df.kcols,
         vcols |-> MapSeq(LAMBDA c : df.vcols[c], vc),
         rows  |-> MapSeq(LAMBDA k :
                      [date     |-> k[1],
                       state    |-> k[2],
                       district |-> k[3],
                       pincode  |-> k[4],
                       vals     |-> MapSeq(LAMBDA c : GroupSum(rows, df.kcols, k, c), vc)],
                      keys)]

\* groupby raises "No group keys passed!" when no key column is present
AggregateRaises(df, prefix) ==
    /\ ~IsEmpty(df)
    /\ Len(ValueCols(df, prefix)) > 0
    /\ df.kcols = {}

aggregate_data(df, prefix) ==
    IF IsEmpty(df) THEN EmptyDF
    ELSE LET vc == ValueCols(df, prefix)
         IN  IF Len(vc) = 0 THEN EmptyDF ELSE GroupBySum(df, vc)

----------------------------------------------------------------------------
(* load_processed_data *)

\* pd.merge raises KeyError when a join key is not a column of both sides
MergeRaises(left, right) == ~(KeySet \subseteq left.kcols /\ KeySet \subseteq right.kcols)

\* the suffix pd.merge puts on a column name both sides have
Suffixed(names, other, sfx) ==
    MapSeq(LAMBDA n : IF InSeq(other, n) THEN n \o sfx ELSE n, names)

NaNs(n) == MapSeq(LAMBDA i : NaN, Range(n))

\* pd.merge(left, right, on=join_keys, how='left')
MergeLeft(left, right) ==
    LET nr == Len(right.vcols)
        Matches(l) == SelectSeq(right.rows, LAMBDA r : KeyOf(r, KeySet) = KeyOf(l, KeySet))
        FromLeft(l) ==
            IF Len(Matches(l)) = 0
            THEN << [l EXCEPT !.vals = l.vals \o NaNs(nr)] >>
            ELSE MapSeq(LAMBDA r : [l EXCEPT !.vals = l.vals \o r.vals], Matches(l))
    IN  [kcols |-> KeySet,
         vcols |-> Suffixed(left.vcols, right.vcols, "_x")
                       \o Suffixed(right.vcols, left.vcols, "_y"),
         rows  |-> Flatten(MapSeq(FromLeft, left.rows))]

\* pd.merge(left, right, on=join_keys, how='outer'): every pair of rows with
\* equal keys, then the left rows and the right rows without a partner
MergeOuter(left, right) ==
    LET nl == Len(left.vcols)
        nr == Len(right.vcols)
        Matches(l) == SelectSeq(right.rows, LAMBDA r : KeyOf(r, KeySet) = KeyOf(l, KeySet))
        FromLeft(l) ==
            IF Len(Matches(l)) = 0
            THEN << [l EXCEPT !.vals = l.vals \o NaNs(nr)] >>
            ELSE MapSeq(LAMBDA r : [l EXCEPT !.vals = l.vals \o r.vals], Matches(l))
        RightOnly == SelectSeq(right.rows,
                         LAMBDA r : \A i \in 1..Len(left.rows) :
                                        KeyOf(left.rows[i], KeySet) # KeyOf(r, KeySet))
    IN  [kcols |-> KeySet,
         vcols |-> Suffixed(left.vcols, right.vcols, "_x")
                       \o Suffixed(right.vcols, left.vcols, "_y"),
         rows  |-> Flatten(MapSeq(FromLeft, left.rows))
                       \o MapSeq(LAMBDA r : [r EXCEPT !.vals = NaNs(nl) \o r.vals],
                                  RightOnly)]

\* lines 252-262: what `merged` holds after folding `other` into it
MergeStep(acc, other) ==
    IF IsEmpty(acc) THEN other
    ELSE IF ~IsEmpty(other) THEN MergeOuter(acc, other)
    ELSE acc

\* pd.merge called whatever is empty
MergeAlwaysAttempted(acc, other) == MergeRaises(acc, other)

MergeStepRaises(acc, other) ==
    ~IsEmpty(acc) /\ ~IsEmpty(other) /\ MergeRaises(acc, other)

\* merged.fillna(0).  The key cells of a merged or aggregated table are never
\* missing (groupby dropped those rows), so only value cells are filled.
FillNa(df) ==
    [df EXCEPT !.rows = MapSeq(LAMBDA r : [r EXCEPT !.vals = MapSeq(NaNToZero, r.vals)],
                               df.rows)]

\* merged[name] = merged.filter(like=like).sum(axis=1)
AddTotal(df, name, like) ==
    LET cols == SelectSeq(Range(Len(df.vcols)), LAMBDA j : Contains(df.vcols[j], like))
    IN  [df EXCEPT
            !.vcols = Append(df.vcols, name),
            !.rows  = MapSeq(LAMBDA r :
                [r EXCEPT !.vals =
                    Append(r.vals,
                           SumSeq(MapSeq(LAMBDA j : NaNToZero(r.vals[j]), cols)))],
                df.rows)]

\* lines 264-270 with total_bio filtered like total_enrol
GrandTotalsSameFilter(df) ==
    AddTotal(AddTotal(AddTotal(FillNa(df), "total_enrol", "enrol"),
                      "total_bio", "enrol"),
             "total_demo", "demo")

\* lines 264-270
GrandTotals(df) ==
    AddTotal(AddTotal(AddTotal(FillNa(df), "total_enrol", "enrol"),
                      "total_bio", "bio"),
             "total_demo", "demo")

Categories == <<"enrolment", "biometric", "demographic">>

CategorySet == {Categories[i] : i \in 1..Len(Categories)}

\* the prefix aggregate_data is called with for each category (lines 243-245)
PrefixOf(cat) ==
    IF cat = "enrolment" THEN "enrol" ELSE IF cat = "biometric" THEN "bio" ELSE "demo"

\* one value per category, as the three locals enrol, bio and demo
PerCategory(Op(_)) ==
    [enrolment |-> Op("enrolment"), biometric |-> Op("biometric"),
     demographic |-> Op("demographic")]

\* lines 264-273 on the merged table m, or the exception that ended the run.  An
\* exception leaves no result: the merged table is reported empty.
Finished(r, k, a, m, raised) ==
    [raw |-> r, clean |-> k, agg |-> a,
     merged  |-> IF raised THEN EmptyDF ELSE GrandTotals(m),
     outcome |-> IF raised THEN "raised" ELSE "returned"]

\* lines 259-262: the demographic aggregate joins the merge m1 of the other two
MergedTwo(r, k, a, aggRaises, m1, raises1) ==
    Finished(r, k, a, MergeStep(m1, a["demographic"]),
             aggRaises \/ raises1 \/ MergeStepRaises(m1, a["demographic"]))

\* lines 249-257 on the aggregates a
Aggregated(r, k, a, aggRaises) ==
    MergedTwo(r, k, a, aggRaises,
              MergeStep(a["enrolment"], a["biometric"]),
              MergeStepRaises(a["enrolment"], a["biometric"]))

\* lines 243-245 on the cleaned tables k; an exception leaves no aggregate
CleanedAndChecked(r, k, aggRaises) ==
    Aggregated(r, k,
               PerCategory(LAMBDA c :
                   IF aggRaises THEN EmptyDF ELSE aggregate_data(k[c], PrefixOf(c))),
               aggRaises)

Cleaned(r, k) ==
    CleanedAndChecked(r, k, \E c \in CategorySet : AggregateRaises(k[c], PrefixOf(c)))

\* lines 237-239 on the raw tables r
Loaded(r) == Cleaned(r, PerCategory(LAMBDA c : clean_dataframe(r[c], c)))

\* the whole of load_processed_data on the files of the three folders
LoadResult(files) == Loaded(PerCategory(LAMBDA c : load_files_from_folder(files[c])))

----------------------------------------------------------------------------
(* The dataset directory: the files each category folder may hold *)

\* the most files one category folder holds
MaxFiles == 2

Row(d, s, di, p, v) == [date |-> d, state |-> s, district |-> di, pincode |-> p, vals |-> v]

PlainKeys == [k \in KeySet |-> k]

Catalogue ==
    [enrolment |-> <<
        \* the enrolment file of the state-variant scenario
        [readable |-> TRUE, khdr |-> PlainKeys, vhdr |-> <<"age_0_5">>,
         rows |-> << Row("01-01-2024", " west bangal ", "X", 1, <<10>>) >>],
        \* the observed schema, headers with stray case and blanks
        [readable |-> TRUE,
         khdr |-> [k \in KeySet |-> IF k = "state" THEN " State " ELSE k],
         vhdr |-> <<"age_0_5", "Age_5_17", "age_18_greater ">>,
         rows |-> << Row("01-01-2024", "West Bengal", "X", 1, <<1, 2, 3>>),
                     Row("02-01-2024", "Odisha", "Y", 2, <<4, 5, 6>>),
                     Row("31-13-2024", "Odisha", "Y", 2, <<7, 7, 7>>) >>],
        \* missing cells, and a second record of a key of the file above
        [readable |-> TRUE, khdr |-> PlainKeys,
         vhdr |-> <<"age_0_5", "age_5_17", "age_18_greater">>,
         rows |-> << Row("2-1-2024", "ORISSA", "Y", 2, <<1, NaN, 1>>),
                     Row("01-01-2024", "orissa", NA, 2, <<1, 1, 1>>),
                     Row("02-01-2024", "Odisha", "Y", NaN, <<2, 2, 2>>) >>],
        \* a file read_csv fails on
        [readable |-> FALSE, khdr |-> PlainKeys, vhdr |-> <<>>, rows |-> <<>>],
        \* a source without postal-area granularity: no pincode column
        [readable |-> TRUE, khdr |-> [k \in KeySet \ {"pincode"} |-> k],
         vhdr |-> <<"age_0_5", "age_5_17", "age_18_greater">>,
         rows |-> << Row("03-01-2024", "Goa", "Z", NaN, <<1, 1, 1>>) >>] >>,
     biometric |-> <<
        \* the biometric file of the state-variant scenario
        [readable |-> TRUE, khdr |-> PlainKeys, vhdr |-> <<"bio_0_5">>,
         rows |-> << Row("01-01-2024", "West Bengal", "X", 1, <<5>>) >>],
        \* the observed schema
        [readable |-> TRUE, khdr |-> PlainKeys,
         vhdr |-> <<"bio_age_5_17", "bio_age_17_">>,
         rows |-> << Row("01-01-2024", "WB", "X", 1, <<7, 8>>),
                     Row("01-01-2024", "wb", "X", 2, <<1, 1>>),
                     Row("29-02-2023", "WB", "X", 1, <<9, 9>>) >>],
        \* a header and no record
        [readable |-> TRUE, khdr |-> PlainKeys,
         vhdr |-> <<"bio_age_5_17", "bio_age_17_">>, rows |-> <<>>],
        \* only records whose date does not parse
        [readable |-> TRUE, khdr |-> PlainKeys,
         vhdr |-> <<"bio_age_5_17", "bio_age_17_">>,
         rows |-> << Row("2024-01-01", "Goa", "Z", 3, <<2, 2>>),
                     Row(NA, "Goa", "Z", 3, <<3, 3>>) >>] >>,
     demographic |-> <<
        \* the observed schema
        [readable |-> TRUE, khdr |-> PlainKeys,
         vhdr |-> <<"demo_age_5_17", "demo_age_17_">>,
         rows |-> << Row("01-01-2024", "West Bengal", "X", 1, <<3, 4>>),
                     Row("02-01-2024", "Orissa", "Y", 2, <<5, 6>>) >>],
        [readable |-> TRUE, khdr |-> PlainKeys,
         vhdr |-> <<"demo_age_5_17", "demo_age_17_">>,
         rows |-> << Row("03-01-2024", "Goa", "Z", 3, <<1, 0>>),
                     Row("03-01-2024", "Goa", "Z", 3, <<0, 2>>),
                     Row("00-01-2024", "Goa", "Z", 3, <<4, 4>>),
                     \* the district above in another spelling, and another
                     \* district of the same postal area
                     Row("03-01-2024", "Goa", " z ", 3, <<1, 1>>),
                     Row("03-01-2024", "Goa", "Q", 3, <<2, 0>>) >>],
        \* no column that carries the category's prefix after the renaming
        [readable |-> TRUE, khdr |-> PlainKeys, vhdr |-> <<"count">>,
         rows |-> << Row("01-01-2024", "Goa", "Z", 3, <<6>>) >>] >>]

\* glob.glob: the files of a folder, here in catalogue order
FilesOf(cat, ids) ==
    MapSeq(LAMBDA i : Catalogue[cat][i],
           SelectSeq(Range(Len(Catalogue[cat])), LAMBDA i : i \in ids))

Folders(cat) == {ids \in SUBSET (1..Len(Catalogue[cat])) : Cardinality(ids) <= MaxFiles}

----------------------------------------------------------------------------
(* The pipeline run *)

NoTables == PerCategory(LAMBDA c : EmptyDF)

Init ==
    /\ pc = "start"
    /\ outcome = "none"
    /\ dataset \in [enrolment : Folders("enrolment"), biometric : Folders("biometric"),
                     demographic : Folders("demographic")]
    /\ raw = NoTables
    /\ clean = NoTables
    /\ agg = NoTables
    /\ merged = EmptyDF
    /\ state_in = EmptyDF
    /\ state_out = EmptyDF
    /\ model_df = EmptyDF
    /\ scored = EmptyDF

LoadProcessedData ==
    /\ pc = "start"
    /\ \E res \in {LoadResult(PerCategory(LAMBDA c : FilesOf(c, dataset[c])))} :
           /\ raw' = res.raw
           /\ clean' = res.clean
           /\ agg' = res.agg
           /\ merged' = res.merged
           /\ outcome' = res.outcome
    /\ pc' = "done"
    /\ UNCHANGED <<dataset, state_in, state_out, model_df, scored>>

Next == LoadProcessedData

Spec == Init /\ [][Next]_vars

----------------------------------------------------------------------------
(* normalize_state_names on its own *)

\* raw spellings found in source files, beside the table's keys and values
RawStateSpellings ==
    {" west bangal ", "ORISSA", "j&k", "dnh", "tamil  nadu", "new delhi", "Atlantis", NA}

StateInputs == CanonicalStates \cup DOMAIN state_mapping \cup RawStateSpellings

OneState(s) ==
    [kcols |-> KeySet, vcols |-> <<>>,
     rows |-> << [date |-> NaT, state |-> s, district |-> "X", pincode |-> 1, vals |-> <<>>] >>]

InitNormalize ==
    /\ pc = "start"
    /\ outcome = "none"
    /\ dataset = PerCategory(LAMBDA c : {})
    /\ raw = NoTables
    /\ clean = NoTables
    /\ agg = NoTables
    /\ merged = EmptyDF
    /\ state_in \in {OneState(s) : s \in StateInputs}
                    \cup {[kcols |-> {"date"}, vcols |-> <<>>, rows |-> <<>>]}
    /\ state_out = EmptyDF
    /\ model_df = EmptyDF
    /\ scored = EmptyDF

NormalizeStateNames ==
    /\ pc = "start"
    /\ state_out' = normalize_state_names(state_in)
    /\ outcome' = "returned"
    /\ pc' = "done"
    /\ UNCHANGED <<dataset, raw, clean, agg, merged, state_in, model_df, scored>>

NextNormalize == NormalizeStateNames

SpecNormalize == InitNormalize /\ [][NextNormalize]_vars

----------------------------------------------------------------------------
(* train_anomaly_model *)

Columns(df) == {df.vcols[i] : i \in 1..Len(df.vcols)} \cup df.kcols

\* the cell of the first column named `name` in a row of df
Cell(df, row, name) == row.vals[IndexOf(df.vcols, name)]

\* feature_cols: the numeric columns whose name contains 'bio_', 'demo_' or
\* 'enrol_' (the key columns are text or dates, and their names contain none)
FeatureCols(df) ==
    SelectSeq(df.vcols, LAMBDA c : \/ Contains(c, "bio_")
                                   \/ Contains(c, "demo_")
                                   \/ Contains(c, "enrol_"))

\* IsolationForest.fit(X) rejects a matrix without rows (ValueError)
FitRaises(df) == Len(df.rows) = 0

\* lines 32-33: the two score columns, the forest's verdict being `flagged`,
\* the set of row positions it predicts -1 for.  anomaly_score is kept as its
\* sign: predict is -1 exactly where decision_function is negative.
WithScores(df, flagged) ==
    [df EXCEPT
        !.vcols = df.vcols \o <<"anomaly_score", "is_anomaly">>,
        !.rows  = MapSeq(LAMBDA i :
                      [df.rows[i] EXCEPT !.vals =
                          df.rows[i].vals \o (IF i \in flagged THEN <<0 - 1, 0 - 1>>
                                                                ELSE <<1, 1>>)],
                      Range(Len(df.rows)))]

\* what train_anomaly_model returns as its second value: kind "none" for
\* None, "df" for the scored table, "raise" for an exception
train_anomaly_model(df, flagged) ==
    IF Len(FeatureCols(df)) = 0 THEN [kind |-> "none", df |-> EmptyDF]
    ELSE IF FitRaises(df) THEN [kind |-> "raise", df |-> EmptyDF]
    ELSE [kind |-> "df", df |-> WithScores(df, flagged)]

----------------------------------------------------------------------------
(* generate_anomaly_explanations *)

\* the z-score an explanation needs to exceed
ZThreshold == 3

\* lines 47-55: total_bio / total_demo are added when absent and some column
\* carries 'bio_' / 'demo_'
WithTotal(df, name, like) ==
    LET cols == SelectSeq(Range(Len(df.vcols)), LAMBDA j : Contains(df.vcols[j], like))
    IN  IF InSeq(df.vcols, name) \/ Len(cols) = 0 THEN df
        ELSE [df EXCEPT
                 !.vcols = Append(df.vcols, name),
                 !.rows  = MapSeq(LAMBDA r :
                     [r EXCEPT !.vals =
                         Append(r.vals, SumSeq(MapSeq(LAMBDA j : NaNToZero(r.vals[j]), cols)))],
                     df.rows)]

\* df.groupby('district')[['total_bio', 'total_demo']] raises KeyError when
\* one of the three columns is missing
StatsRaise(df) ==
    \/ "district" \notin df.kcols
    \/ ~InSeq(df.vcols, "total_bio")
    \/ ~InSeq(df.vcols, "total_demo")

\* the count, the sum and the sum of squares of column `name` over the rows
\* of one district: mean = sum / n, std^2 = (n*sq - sum^2) / (n*(n-1)).
\* groupby leaves rows without a district out, and the left merge gives
\* them no statistics (n = 0).
ColumnStats(df, district, name) ==
    LET xs == MapSeq(LAMBDA r : Cell(df, r, name),
                     SelectSeq(df.rows, LAMBDA r : district # NA /\ r.district = district))
    IN  [n   |-> Len(xs),
         sum |-> SumSeq(xs),
         sq  |-> SumSeq(MapSeq(LAMBDA x : x * x, xs))]

\* n * (n - 1) * std^2
ScaledVariance(st) == st.n * st.sq - st.sum * st.sum

\* row['std'] >= 0
StdNotNegative(st) == st.n >= 2 /\ ScaledVariance(st) >= 0

\* row['std'] > 0: the sample standard deviation (ddof=1) is NaN for a
\* district of one row, and NaN > 0 is False
StdPositive(st) == st.n >= 2 /\ ScaledVariance(st) > 0

\* the standard deviation is exactly 0
StdZero(st) == st.n >= 2 /\ ScaledVariance(st) = 0

\* x - mean > ZThreshold: the deviation not divided by std
DeviationAboveThreshold(x, st) == st.n * x - st.sum > ZThreshold * st.n

\* (x - mean) / std > ZThreshold - 1
ZAboveLowerThreshold(x, st) ==
    /\ st.n * x - st.sum > 0
    /\ (st.n * x - st.sum) * (st.n * x - st.sum) * (st.n - 1)
           > (ZThreshold - 1) * (ZThreshold - 1) * st.n * ScaledVariance(st)

\* (x - mean) / std > ZThreshold, for std > 0, without the division:
\* n*x - sum > ZThreshold * n * std
ZAboveThreshold(x, st) ==
    /\ st.n * x - st.sum > 0
    /\ (st.n * x - st.sum) * (st.n * x - st.sum) * (st.n - 1)
           > ZThreshold * ZThreshold * st.n * ScaledVariance(st)

\* the sentence of one metric; the digits of the z-score ({z:.1f}) are not
\* computed
Sentence(metric, x) ==
    metric \o " Updates (" \o ToString(x) \o ") are {z:.1f}x above district avg."

Fallback == "Unusual combination of update types detected by AI."

RECURSIVE Join(_, _)
\* sep.join(parts)
Join(parts, sep) ==
    IF Len(parts) = 0 THEN ""
    ELSE IF Len(parts) = 1 THEN parts[1]
    ELSE parts[1] \o sep \o Join(Tail(parts), sep)

\* explain_row with the fallback appended whatever the reasons are
ExplainRowAlwaysFallback(x_bio, bio, x_demo, demo, flag) ==
    LET r1 == IF StdPositive(bio) /\ ZAboveThreshold(x_bio, bio)
              THEN <<Sentence("Biometric", x_bio)>> ELSE <<>>
        r2 == IF StdPositive(demo) /\ ZAboveThreshold(x_demo, demo)
              THEN <<Sentence("Demographic", x_demo)>> ELSE <<>>
        r3 == IF flag = 0 - 1 THEN <<Fallback>> ELSE <<>>
        reasons == r1 \o r2 \o r3
    IN  IF Len(reasons) > 0 THEN Join(reasons, " | ") ELSE "Normal"

\* explain_row: bio and demo are the statistics of the row's district;
\* flag is row.get('is_anomaly'), 0 standing for None
ExplainRow(x_bio, bio, x_demo, demo, flag) ==
    LET r1 == IF StdPositive(bio) /\ ZAboveThreshold(x_bio, bio)
              THEN <<Sentence("Biometric", x_bio)>> ELSE <<>>
        r2 == IF StdPositive(demo) /\ ZAboveThreshold(x_demo, demo)
              THEN <<Sentence("Demographic", x_demo)>> ELSE <<>>
        r3 == IF Len(r1 \o r2) = 0 /\ flag = 0 - 1 THEN <<Fallback>> ELSE <<>>
        reasons == r1 \o r2 \o r3
    IN  IF Len(reasons) > 0 THEN Join(reasons, " | ") ELSE "Normal"

\* explain_row evaluates a division by a standard deviation that is 0
\* (numpy: inf or nan and a RuntimeWarning)
DividesByZero(bio, demo) ==
    \/ StdPositive(bio) /\ StdZero(bio)
    \/ StdPositive(demo) /\ StdZero(demo)

\* the table returned: each row gains the statistics of its district (the
\* columns mean_bio, std_bio, mean_demo, std_demo, held as `bio` and `demo`),
\* the column anomaly_reason, and the record of a division by zero
Explained(df) ==
    [df EXCEPT !.rows = MapSeq(LAMBDA r :
        LET bio  == ColumnStats(df, r.district, "total_bio")
            demo == ColumnStats(df, r.district, "total_demo")
            flag == IF InSeq(df.vcols, "is_anomaly") THEN Cell(df, r, "is_anomaly") ELSE 0
        IN  [district |-> r.district,
             vals     |-> r.vals,
             bio      |-> bio,
             demo     |-> demo,
             flag     |-> flag,
             zero_div |-> DividesByZero(bio, demo),
             anomaly_reason |-> ExplainRow(Cell(df, r, "total_bio"), bio,
                                           Cell(df, r, "total_demo"), demo, flag)],
        df.rows)]

ExplanationsRaise(df) ==
    StatsRaise(WithTotal(WithTotal(df, "total_bio", "bio_"), "total_demo", "demo_"))

generate_anomaly_explanations(df) ==
    Explained(WithTotal(WithTotal(df, "total_bio", "bio_"), "total_demo", "demo_"))

----------------------------------------------------------------------------
(* load_or_train_model *)

\* the outcome of load_or_train_model(df): a second value None makes
\* generate_anomaly_explanations fail on df.columns (AttributeError)
ModelResult(df, flagged) ==
    LET t == train_anomaly_model(df, flagged)
    IN  IF t.kind # "df" \/ ExplanationsRaise(t.df)
        THEN [outcome |-> "raised", df |-> EmptyDF]
        ELSE [outcome |-> "returned", df |-> generate_anomaly_explanations(t.df)]

----------------------------------------------------------------------------
(* The anomaly engine on a view of the merged table *)

\* the most rows of the district's usual activity in a view
MaxBulk == 10
\* the most rows the isolation forest flags in a view
MaxFlagged == 1

RECURSIVE Rep(_, _)
\* n copies of x
Rep(n, x) == IF n = 0 THEN <<>> ELSE Append(Rep(n - 1, x), x)

ViewCols(shape) ==
    IF shape = "merged"
    THEN <<"enrol_0_5", "bio_0_5", "demo_0_5", "total_enrol", "total_bio", "total_demo">>
    ELSE <<"total_enrol", "total_bio", "total_demo">>

\* a view with `bulk` rows of district D at (1, 0), at most one row each at
\* (100, 0), (1, 50) and (100, 50), and, with `others`, one row of district E
\* and two equal rows of district F
View(shape, bulk, sb, sd, sbd, others) ==
    LET cells == Rep(bulk, <<"D", 1, 0>>) \o Rep(sb, <<"D", 100, 0>>)
                 \o Rep(sd, <<"D", 1, 50>>) \o Rep(sbd, <<"D", 100, 50>>)
                 \o Rep(others, <<"E", 5, 7>>) \o Rep(2 * others, <<"F", 3, 3>>)
    IN  [kcols |-> KeySet,
         vcols |-> ViewCols(shape),
         rows  |-> MapSeq(LAMBDA i :
                      [date |-> <<2024, 1, 1>>, state |-> "Goa",
                       district |-> cells[i][1], pincode |-> i,
                       vals |-> IF shape = "merged"
                                THEN <<0, cells[i][2], cells[i][3],
                                       0, cells[i][2], cells[i][3]>>
                                ELSE <<0, cells[i][2], cells[i][3]>>],
                      Range(Len(cells)))]

Views ==
    {View(shape, bulk, sb, sd, sbd, others) :
        shape \in {"merged", "totals"}, bulk \in 0..MaxBulk,
        sb \in 0..1, sd \in 0..1, sbd \in 0..1, others \in 0..1}
    \cup {GrandTotals(EmptyDF)}

RECURSIVE SmallSubsets(_, _)
\* the subsets of S of at most k elements
SmallSubsets(S, k) ==
    IF k = 0 THEN {{}}
    ELSE LET prev == SmallSubsets(S, k - 1)
         IN  prev \cup {p \cup {x} : p \in prev, x \in S}

InitAnomaly ==
    /\ pc = "start"
    /\ outcome = "none"
    /\ dataset = PerCategory(LAMBDA c : {})
    /\ raw = NoTables
    /\ clean = NoTables
    /\ agg = NoTables
    /\ merged = EmptyDF
    /\ state_in = EmptyDF
    /\ state_out = EmptyDF
    /\ model_df \in Views
    /\ scored = EmptyDF

LoadOrTrainModel ==
    /\ pc = "start"
    /\ \E flagged \in SmallSubsets(1..Len(model_df.rows), MaxFlagged) :
           LET res == ModelResult(model_df, flagged)
           IN  /\ scored' = res.df
               /\ outcome' = res.outcome
    /\ pc' = "trained"
    /\ UNCHANGED <<dataset, raw, clean, agg, merged, state_in, state_out, model_df>>

GenerateAnomalyExplanations ==
    /\ pc = "start"
    /\ IF ExplanationsRaise(model_df)
       THEN scored' = EmptyDF /\ outcome' = "raised"
       ELSE scored' = generate_anomaly_explanations(model_df) /\ outcome' = "returned"
    /\ pc' = "explained"
    /\ UNCHANGED <<dataset, raw, clean, agg, merged, state_in, state_out, model_df>>

NextAnomaly == LoadOrTrainModel \/ GenerateAnomalyExplanations

SpecAnomaly == InitAnomaly /\ [][NextAnomaly]_vars

----------------------------------------------------------------------------
(* Loading and cleaning the files of one folder, by column header *)

\* header texts a source file may give a count column
ColumnHeaders ==
    {"age_0_5", " Age 0-5 ", "age_05_17", "age_5_17", "age_18_greater", "age_17_18",
     "bio_age_17_", "count_0_5", "5_17", "total_18", "count", "age"}

\* a file with the four key columns and one count column headed h, holding
\* n records
HeadedFile(h, n) ==
    [readable |-> TRUE, khdr |-> PlainKeys, vhdr |-> <<h>>,
     rows |-> MapSeq(LAMBDA i : Row("01-01-2024", "Goa", "Z", i, <<i>>), Range(n))]

\* a folder of two files with a record each, or of one file with a header only
HeadedFolders ==
    {<<HeadedFile(h1, 1), HeadedFile(h2, 1)>> : h1 \in ColumnHeaders, h2 \in ColumnHeaders}
    \cup {<<HeadedFile(h, 0)>> : h \in ColumnHeaders}

\* the same folder is given to each of the three categories
InitClean ==
    /\ pc = "start"
    /\ outcome = "none"
    /\ \E files \in HeadedFolders : dataset = PerCategory(LAMBDA c : files)
    /\ raw = NoTables
    /\ clean = NoTables
    /\ agg = NoTables
    /\ merged = EmptyDF
    /\ state_in = EmptyDF
    /\ state_out = EmptyDF
    /\ model_df = EmptyDF
    /\ scored = EmptyDF

\* lines 232-239: load_files_from_folder, then clean_dataframe, per category
LoadAndClean ==
    /\ pc = "start"
    /\ \E r \in {PerCategory(LAMBDA c : load_files_from_folder(dataset[c]))} :
           /\ raw' = r
           /\ clean' = PerCategory(LAMBDA c : clean_dataframe(r[c], c))
    /\ outcome' = "returned"
    /\ pc' = "cleaned"
    /\ UNCHANGED <<dataset, agg, merged, state_in, state_out, model_df, scored>>

NextClean == LoadAndClean

SpecClean == InitClean /\ [][NextClean]_vars

----------------------------------------------------------------------------
(* generate_anomaly_explanations on one district, by its totals *)

\* the most rows of the district
MaxDistrictRows == 11
\* the largest total_bio of a row
MaxTotal == 2

RECURSIVE NonDecreasing(_, _)
\* the non-decreasing sequences of n totals, none below lo
NonDecreasing(n, lo) ==
    IF n = 0 THEN {<<>>}
    ELSE UNION {{<<v>> \o s : s \in NonDecreasing(n - 1, v)} : v \in lo..MaxTotal}

\* a table of the rows of district D, total_bio being xs and total_demo 0
DistrictTable(xs) ==
    [kcols |-> KeySet,
     vcols |-> ViewCols("totals"),
     rows  |-> MapSeq(LAMBDA i :
                  [date |-> <<2024, 1, 1>>, state |-> "Goa", district |-> "D",
                   pincode |-> i, vals |-> <<0, xs[i], 0>>],
                  Range(Len(xs)))]

DistrictTables ==
    UNION {{DistrictTable(xs) : xs \in NonDecreasing(n, 0)} : n \in 1..MaxDistrictRows}

InitDistrict ==
    /\ pc = "start"
    /\ outcome = "none"
    /\ dataset = PerCategory(LAMBDA c : {})
    /\ raw = NoTables
    /\ clean = NoTables
    /\ agg = NoTables
    /\ merged = EmptyDF
    /\ state_in = EmptyDF
    /\ state_out = EmptyDF
    /\ model_df \in DistrictTables
    /\ scored = EmptyDF

NextDistrict == GenerateAnomalyExplanations

SpecDistrict == InitDistrict /\ [][NextDistrict]_vars

----------------------------------------------------------------------------
(* Properties of load_processed_data *)

Returned == pc = "done" /\ outcome = "returned"

CellOrZero(df, row, name) == IF InSeq(df.vcols, name) THEN Cell(df, row, name) ELSE 0

RowsOf(df) == {df.rows[i] : i \in 1..Len(df.rows)}

\* C1: in every row of the table load_processed_data returns, each grand
\* total is the sum of the category's three age-bucket columns, an absent
\* column counting as zero, and no grand total is missing.
TotalsAreBucketSums ==
    Returned =>
        /\ \A t \in {"total_enrol", "total_bio", "total_demo"} : InSeq(merged.vcols, t)
        /\ \A r \in RowsOf(merged) :
            /\ Cell(merged, r, "total_enrol") # NaN
            /\ Cell(merged, r, "total_bio") # NaN
            /\ Cell(merged, r, "total_demo") # NaN
            /\ Cell(merged, r, "total_enrol") =
                   CellOrZero(merged, r, "enrol_0_5") + CellOrZero(merged, r, "enrol_5_17")
                       + CellOrZero(merged, r, "enrol_18_plus")
            /\ Cell(merged, r, "total_bio") =
                   CellOrZero(merged, r, "bio_0_5") + CellOrZero(merged, r, "bio_5_17")
                       + CellOrZero(merged, r, "bio_18_plus")
            /\ Cell(merged, r, "total_demo") =
                   CellOrZero(merged, r, "demo_0_5") + CellOrZero(merged, r, "demo_5_17")
                       + CellOrZero(merged, r, "demo_18_plus")

\* a returned row with three non-zero enrolment buckets, non-zero biometric
\* and demographic totals, and a row of the same table without enrolment
TotalsWitness ==
    /\ Returned
    /\ \E r \in RowsOf(merged) :
        /\ InSeq(merged.vcols, "enrol_0_5") /\ Cell(merged, r, "enrol_0_5") > 0
        /\ InSeq(merged.vcols, "enrol_5_17") /\ Cell(merged, r, "enrol_5_17") > 0
        /\ InSeq(merged.vcols, "enrol_18_plus") /\ Cell(merged, r, "enrol_18_plus") > 0
        /\ Cell(merged, r, "total_bio") > 0
        /\ Cell(merged, r, "total_demo") > 0
    /\ \E r \in RowsOf(merged) : Cell(merged, r, "total_enrol") = 0

AggKeys(c) == {KeyOf(r, KeySet) : r \in RowsOf(agg[c])}

MergedKeys == {KeyOf(r, KeySet) : r \in RowsOf(merged)}

\* C2: the keys of the merged table are exactly the keys of the three
\* aggregated tables taken together, each key is the key of one merged row,
\* and a row whose key a category does not have is 0 in every column of that
\* category; whichever of the three tables are empty.
OuterJoinComplete ==
    Returned =>
        /\ MergedKeys = UNION {AggKeys(c) : c \in CategorySet}
        /\ Cardinality(MergedKeys) = Len(merged.rows)
        /\ \A r \in RowsOf(merged) : \A c \in CategorySet :
               KeyOf(r, KeySet) \notin AggKeys(c) =>
                   \A j \in 1..Len(agg[c].vcols) : Cell(merged, r, agg[c].vcols[j]) = 0

\* the enrolment table is empty, the other two are merged, and each of them
\* lacks a key the other one has
OuterJoinWitness ==
    /\ Returned
    /\ IsEmpty(agg["enrolment"])
    /\ ~IsEmpty(agg["biometric"])
    /\ ~IsEmpty(agg["demographic"])
    /\ \E r \in RowsOf(merged) : KeyOf(r, KeySet) \notin AggKeys("biometric")
    /\ \E r \in RowsOf(merged) : KeyOf(r, KeySet) \notin AggKeys("demographic")

CleanKeys(c) == {KeyOf(r, clean[c].kcols) : r \in RowsOf(clean[c])}

\* C3: for a table with value columns, aggregate_data returns one row for
\* each distinct key of the table and no two rows with one key, and each
\* value of a row is the sum of its column over the table's rows of that key.
AggregateOneRowPerKey ==
    Returned =>
        \A c \in CategorySet :
            LET df  == clean[c]
                out == agg[c]
                vc  == ValueCols(df, PrefixOf(c))
            IN  (~IsEmpty(df) /\ Len(vc) > 0) =>
                    /\ {KeyOf(r, df.kcols) : r \in RowsOf(out)} = CleanKeys(c)
                    /\ Cardinality(CleanKeys(c)) = Len(out.rows)
                    /\ \A r \in RowsOf(out) : \A j \in 1..Len(vc) :
                           r.vals[j] =
                               SumSeq(MapSeq(LAMBDA x : NaNToZero(x.vals[vc[j]]),
                                   SelectSeq(df.rows,
                                       LAMBDA x : KeyOf(x, df.kcols) = KeyOf(r, df.kcols))))

\* C4: normalize_state_names leaves each of the 36 canonical State/UT names
\* unchanged.
CanonicalNamesUnchanged ==
    pc = "done" =>
        \A i \in 1..Len(state_in.rows) :
            state_in.rows[i].state \in CanonicalStates =>
                state_out.rows[i].state = state_in.rows[i].state

\* the raw spellings of the catalogue's files that stand for one state
SpellingsOf ==
    [c \in {"West Bengal", "Odisha", "Goa"} |->
        IF c = "West Bengal" THEN {" west bangal ", "West Bengal", "WB", "wb"}
        ELSE IF c = "Odisha" THEN {"Odisha", "ORISSA", "orissa", "Orissa"}
        ELSE {"Goa"}]

\* the calendar dates the catalogue's files write, by their text
DateOfText ==
    [s \in {"01-01-2024", "02-01-2024", "2-1-2024", "03-01-2024"} |->
        IF s = "01-01-2024" THEN <<2024, 1, 1>>
        ELSE IF s = "03-01-2024" THEN <<2024, 1, 3>>
        ELSE <<2024, 1, 2>>]

ScenarioDataset == [enrolment |-> {1}, biometric |-> {1}, demographic |-> {}]

\* C5: two records of different categories with the same date, district and
\* pincode whose states are spellings of one canonical state lie in a single
\* merged row under the canonical name; for the enrolment record (" west
\* bangal ", age_0_5 = 10) and the biometric record ("West Bengal",
\* bio_0_5 = 5) that row holds enrol_0_5 = 10, bio_0_5 = 5, total_enrol = 10
\* and total_bio = 5, and it is the only row.
StateVariantsShareOneRow ==
    Returned =>
        /\ \A c1 \in CategorySet : \A c2 \in CategorySet \ {c1} :
           \A r1 \in RowsOf(raw[c1]) : \A r2 \in RowsOf(raw[c2]) :
           \A s \in DOMAIN SpellingsOf :
               ( /\ ~IsEmpty(agg[c1]) /\ ~IsEmpty(agg[c2])
                 /\ r1.state \in SpellingsOf[s] /\ r2.state \in SpellingsOf[s]
                 /\ r1.date \in DOMAIN DateOfText /\ r2.date \in DOMAIN DateOfText
                 /\ DateOfText[r1.date] = DateOfText[r2.date]
                 /\ r1.district # NA /\ r1.district = r2.district
                 /\ r1.pincode # NaN /\ r1.pincode = r2.pincode )
               => Cardinality({i \in 1..Len(merged.rows) :
                                  KeyOf(merged.rows[i], KeySet) =
                                      <<DateOfText[r1.date], s, r1.district, r1.pincode>>}) = 1
        /\ dataset = ScenarioDataset =>
               /\ Len(merged.rows) = 1
               /\ merged.rows[1].state = "West Bengal"
               /\ Cell(merged, merged.rows[1], "enrol_0_5") = 10
               /\ Cell(merged, merged.rows[1], "bio_0_5") = 5
               /\ Cell(merged, merged.rows[1], "total_enrol") = 10
               /\ Cell(merged, merged.rows[1], "total_bio") = 5

\* the scenario has run: the enrolment file spelt " west bangal ", the
\* biometric file "West Bengal", and a table was returned
StateVariantsWitness ==
    /\ Returned
    /\ dataset = ScenarioDataset
    /\ raw["enrolment"].rows[1].state = " west bangal "
    /\ raw["biometric"].rows[1].state = "West Bengal"
    /\ Len(merged.rows) > 0

\* C6: clean_dataframe drops the rows whose date is not a calendar date
\* written day-month-year and no other row: the rows it returns are, in
\* order, the rows with such a date, each under the date its text denotes.
OnlyBadDatesDropped ==
    pc = "done" =>
        \A c \in CategorySet :
            LET kept == SelectSeq(raw[c].rows, LAMBDA r : r.date \in DOMAIN DateOfText)
                bad  == Cardinality({i \in 1..Len(raw[c].rows) :
                                        raw[c].rows[i].date \notin DOMAIN DateOfText})
            IN  "date" \in raw[c].kcols =>
                    /\ Len(clean[c].rows) = Len(raw[c].rows) - bad
                    /\ Len(clean[c].rows) = Len(kept)
                    /\ \A i \in 1..Len(kept) :
                        /\ clean[c].rows[i].date = DateOfText[kept[i].date]
                        /\ clean[c].rows[i].district = kept[i].district
                        /\ clean[c].rows[i].pincode = kept[i].pincode
                        /\ clean[c].rows[i].vals = kept[i].vals

\* a table with the record dated "31-13-2024" was cleaned: one row fewer,
\* the other rows kept
BadDateWitness ==
    /\ pc = "done"
    /\ \E i \in 1..Len(raw["enrolment"].rows) : raw["enrolment"].rows[i].date = "31-13-2024"
    /\ Len(raw["enrolment"].rows) = 3
    /\ Len(clean["enrolment"].rows) = 2

\* C7: when no category folder holds a file, load_files_from_folder,
\* clean_dataframe and aggregate_data each give an empty table and
\* load_processed_data returns a table without rows, raising nothing.
EmptyDatasetGivesEmptyTable ==
    (pc = "done" /\ \A c \in CategorySet : dataset[c] = {}) =>
        /\ outcome = "returned"
        /\ \A c \in CategorySet : IsEmpty(raw[c]) /\ IsEmpty(clean[c]) /\ IsEmpty(agg[c])
        /\ Len(merged.rows) = 0
        /\ IsEmpty(merged)

\* load_processed_data has run on three empty folders
EmptyDatasetWitness ==
    /\ pc = "done"
    /\ \A c \in CategorySet : dataset[c] = {}
    /\ outcome # "none"

----------------------------------------------------------------------------
(* Properties of the anomaly engine *)

Explanations == pc \in {"trained", "explained"} /\ outcome = "returned"

\* the rows of the scored table that share the district of row r
DistrictRows(r) == SelectSeq(scored.rows, LAMBDA x : x.district = r.district)

TotalBio(r) == Cell(scored, r, "total_bio")

TotalDemo(r) == Cell(scored, r, "total_demo")

\* C8: load_or_train_model on a table without a numeric bio_/demo_/enrol_
\* column, or without rows, returns that table unscored and raises nothing.
UnscorableInputPassesThrough ==
    (pc = "trained" /\ (Len(FeatureCols(model_df)) = 0 \/ Len(model_df.rows) = 0)) =>
        /\ outcome = "returned"
        /\ scored.vcols = model_df.vcols
        /\ Len(scored.rows) = Len(model_df.rows)

\* C9: a row whose district has one row, or whose district has the same
\* total in every row, never has a division by a zero standard deviation
\* evaluated for it and gets no sentence for that metric; when that holds of
\* both metrics and the row is not ML-flagged, its anomaly_reason is "Normal".
DegenerateDistrictIsNormal ==
    Explanations =>
        \A r \in RowsOf(scored) :
            LET rows    == DistrictRows(r)
                single  == Len(rows) = 1
                flatBio == \A i \in 1..Len(rows) : TotalBio(rows[i]) = TotalBio(r)
                flatDem == \A i \in 1..Len(rows) : TotalDemo(rows[i]) = TotalDemo(r)
            IN  /\ (single \/ flatBio \/ flatDem) => ~r.zero_div
                /\ (single \/ flatBio) => ~Contains(r.anomaly_reason, "Biometric Updates")
                /\ (single \/ flatDem) => ~Contains(r.anomaly_reason, "Demographic Updates")
                /\ ((single \/ (flatBio /\ flatDem)) /\ r.flag # 0 - 1)
                       => r.anomaly_reason = "Normal"

\* one table holds a district of one row and a district of two equal rows,
\* all explained "Normal", beside a district where a sentence was produced
DegenerateDistrictWitness ==
    /\ Explanations
    /\ \E r \in RowsOf(scored) :
           Len(DistrictRows(r)) = 1 /\ r.flag # 0 - 1 /\ r.anomaly_reason = "Normal"
    /\ \E r \in RowsOf(scored) :
           /\ Len(DistrictRows(r)) = 2
           /\ \A i \in 1..2 : TotalBio(DistrictRows(r)[i]) = TotalBio(r)
           /\ r.anomaly_reason = "Normal"
    /\ \E r \in RowsOf(scored) : Contains(r.anomaly_reason, "Biometric Updates")

\* the rows of district D are nine, eight with total_bio 1 and one with
\* total_bio 100, none ML-flagged
NineRowDistrict ==
    /\ Explanations
    /\ LET rows == SelectSeq(scored.rows, LAMBDA x : x.district = "D")
       IN  /\ Len(rows) = 9
           /\ Cardinality({i \in 1..9 : TotalBio(rows[i]) = 1}) = 8
           /\ Cardinality({i \in 1..9 : TotalBio(rows[i]) = 100}) = 1
           /\ \A i \in 1..9 : rows[i].flag # 0 - 1

\* z * den > num for the z-score of x against the statistics st, std > 0
ZTimesExceeds(x, st, den, num) ==
    /\ st.n * x - st.sum > 0
    /\ den * den * (st.n * x - st.sum) * (st.n * x - st.sum) * (st.n - 1)
           > num * num * st.n * (st.n * st.sq - st.sum * st.sum)

\* z * den = num
ZTimesEquals(x, st, den, num) ==
    /\ st.n * x - st.sum > 0
    /\ den * den * (st.n * x - st.sum) * (st.n * x - st.sum) * (st.n - 1)
           = num * num * st.n * (st.n * st.sq - st.sum * st.sum)

\* C10 as stated: in the nine-row district the row with total_bio 100 has a
\* z-score above 3 and a reason mentioning "Biometric Updates", and the
\* other eight rows get "Normal".
NineRowSpikeExplained ==
    NineRowDistrict =>
        \A r \in RowsOf(scored) :
            r.district = "D" =>
                IF TotalBio(r) = 100
                THEN /\ ZTimesExceeds(TotalBio(r), r.bio, 1, 3)
                     /\ Contains(r.anomaly_reason, "Biometric Updates")
                ELSE r.anomaly_reason = "Normal"

\* C10 as amended: in the nine-row district the z-score of the row with
\* total_bio 100 is 88/33 = 8/3, which does not exceed 3, and all nine rows
\* get "Normal".
NineRowSpikeStaysNormal ==
    NineRowDistrict =>
        \A r \in RowsOf(scored) :
            r.district = "D" =>
                /\ r.anomaly_reason = "Normal"
                /\ TotalBio(r) = 100 =>
                       /\ ZTimesEquals(TotalBio(r), r.bio, 3, 8)
                       /\ ~ZTimesExceeds(TotalBio(r), r.bio, 1, 3)

\* generate_anomaly_explanations has explained the nine-row district
NineRowWitness ==
    /\ NineRowDistrict
    /\ \E r \in RowsOf(scored) : r.district = "D" /\ TotalBio(r) = 100

\* the count, sum and sum of squares of a total over the district of row r
DistrictStats(r, Total(_)) ==
    LET xs == MapSeq(Total, DistrictRows(r))
    IN  [n |-> Len(xs), sum |-> SumSeq(xs), sq |-> SumSeq(MapSeq(LAMBDA x : x * x, xs))]

\* the z-score of the row's total within its district is above 3
BioTriggers(r) == ZTimesExceeds(TotalBio(r), DistrictStats(r, TotalBio), 1, 3)

DemoTriggers(r) == ZTimesExceeds(TotalDemo(r), DistrictStats(r, TotalDemo), 1, 3)

----------------------------------------------------------------------------
(* Properties of the column renaming *)

Cleaned3 == pc = "cleaned"

\* the i-th count column of category c, before and after clean_dataframe
RawName(c, i) == raw[c].vcols[i]

CleanName(c, i) == clean[c].vcols[i]

\* the name carries the digits of the 0-5, the 5-17, the 18+ bucket
Has05(n) == Contains(n, "0") /\ Contains(n, "5")

Has517(n) == Contains(n, "5") /\ Contains(n, "17")

Has18(n) == Contains(n, "18")

\* C12 as stated: in each category a column whose name contains "0" and "5"
\* becomes <prefix>_0_5, a column containing "18" that no earlier rule matched
\* becomes <prefix>_18_plus, and a column no rule matches keeps its name.
ColumnsRenamedAsClaimed ==
    Cleaned3 =>
        \A c \in CategorySet : \A i \in 1..Len(raw[c].vcols) :
            LET n == RawName(c, i)
            IN  /\ Has05(n) => CleanName(c, i) = PrefixOf(c) \o "_0_5"
                /\ (Has18(n) /\ ~Has05(n) /\ ~Has517(n))
                       => CleanName(c, i) = PrefixOf(c) \o "_18_plus"
                /\ (~Has05(n) /\ ~Has517(n) /\ ~Has18(n)) => CleanName(c, i) = n

\* the name clean_dataframe gives a column of a table with records
FirstRuleName(n, c) ==
    LET aged == c # "enrolment" \/ Contains(n, "age")
        late == Has18(n) \/ (c # "enrolment" /\ Contains(n, "17"))
    IN  IF ~aged THEN n
        ELSE IF Has05(n) THEN PrefixOf(c) \o "_0_5"
        ELSE IF Has517(n) THEN PrefixOf(c) \o "_5_17"
        ELSE IF late THEN PrefixOf(c) \o "_18_plus"
        ELSE n

\* C12 as amended: in a table with at least one record each column is renamed
\* by the first rule that matches: "0" and "5" give <prefix>_0_5, "5" and "17"
\* give <prefix>_5_17, "18" (for biometric and demographic also "17") gives
\* <prefix>_18_plus; for enrolment a rule matches only a name that also
\* contains "age"; every other column, and every column of a table without
\* records, keeps its name.
ColumnsRenamedByFirstRule ==
    Cleaned3 =>
        \A c \in CategorySet :
            /\ Len(clean[c].vcols) = Len(raw[c].vcols)
            /\ clean[c].kcols = raw[c].kcols
            /\ \A i \in 1..Len(raw[c].vcols) :
                   CleanName(c, i) = IF Len(raw[c].rows) = 0 THEN RawName(c, i)
                                     ELSE FirstRuleName(RawName(c, i), c)

\* a column with "0" and "5" but no "age" is kept by enrolment and renamed by
\* biometric, and a column with "17" alone becomes the biometric 18+ bucket
RenameWitness ==
    /\ Cleaned3
    /\ raw["enrolment"].vcols = <<"count_0_5", "bio_age_17_">>
    /\ clean["enrolment"].vcols = <<"count_0_5", "bio_age_17_">>
    /\ clean["biometric"].vcols = <<"bio_0_5", "bio_18_plus">>

----------------------------------------------------------------------------
(* Further properties of load_processed_data *)

Done == pc = "done"

\* two district texts that differ only in surrounding blanks or letter case
SameDistrictText(d1, d2) == d1 # NA /\ d2 # NA /\ Lower(Strip(d1)) = Lower(Strip(d2))

\* C13: after clean_dataframe no district has surrounding blanks, and records
\* with the same date, state and pincode whose districts differ only in
\* surrounding blanks or letter case lie in one aggregated and one merged row.
DistrictVariantsShareOneRow ==
    Returned =>
        /\ \A c \in CategorySet : \A r \in RowsOf(clean[c]) :
               r.district # NA => r.district = Strip(r.district)
        /\ \A t \in {agg[c] : c \in CategorySet} \cup {merged} :
           \A r1 \in RowsOf(t) : \A r2 \in RowsOf(t) :
               ( /\ r1.date = r2.date /\ r1.state = r2.state /\ r1.pincode = r2.pincode
                 /\ SameDistrictText(r1.district, r2.district) )
               => r1.district = r2.district

\* C14: a category whose cleaned table lacks a key column is aggregated on
\* the key columns it has, and load_processed_data returns a merged table.
MissingKeyColumnTolerated ==
    Done =>
        \A c \in CategorySet :
            ( /\ ~IsEmpty(clean[c])
              /\ clean[c].kcols # KeySet /\ clean[c].kcols # {}
              /\ Len(ValueCols(clean[c], PrefixOf(c))) > 0 )
            => /\ outcome = "returned"
               /\ agg[c].kcols = clean[c].kcols
               /\ Len(merged.rows) > 0

\* the distinct values of a key column, missing values left out
DistinctDates(df) == {r.date : r \in RowsOf(df)} \ {NaT}

DistinctPincodes(df) == {r.pincode : r \in RowsOf(df)} \ {NaN}

\* C15: for a category table with a date and a pincode column, aggregate_data
\* returns at most (distinct dates) x (distinct pincodes) rows.
AggregateWithinDatePincodeBound ==
    Done =>
        \A c \in CategorySet :
            {"date", "pincode"} \subseteq clean[c].kcols =>
                Len(agg[c].rows)
                    <= Cardinality(DistinctDates(clean[c]))
                           * Cardinality(DistinctPincodes(clean[c]))

\* the sum of column `name` over the rows of df, a missing cell counting 0
ColumnSum(df, name) ==
    SumSeq(MapSeq(LAMBDA r : NaNToZero(Cell(df, r, name)), df.rows))

\* C17: for each value column of a category, the sum over the merged table
\* (0 for a column the merged table lacks) equals the sum over the cleaned
\* category table, records without district or pincode included.
CountsConserved ==
    Returned =>
        \A c \in CategorySet :
            LET vc == ValueCols(clean[c], PrefixOf(c))
            IN  \A j \in 1..Len(vc) :
                    LET name == clean[c].vcols[vc[j]]
                    IN  (IF InSeq(merged.vcols, name) THEN ColumnSum(merged, name) ELSE 0)
                            = ColumnSum(clean[c], name)

----------------------------------------------------------------------------
(* Reachability of the statistical explanation *)

\* some row of the table carries a templated sentence
HasSentence(df) == \E r \in RowsOf(df) : Contains(r.anomaly_reason, "above district avg.")

\* C16 as stated: for a district of n >= 2 rows some assignment of
\* non-negative integer totals makes generate_anomaly_explanations produce a
\* templated sentence, in districts of 2..10 rows as in larger ones.
SmallDistrictCanTrigger ==
    (pc = "explained" /\ Len(model_df.rows) >= 2) =>
        \E xs \in NonDecreasing(Len(model_df.rows), 0) :
            HasSentence(generate_anomaly_explanations(DistrictTable(xs)))

\* every row but one has total_bio 0, and that one a positive total
OneOutlier(df) ==
    Cardinality({i \in 1..Len(df.rows) : Cell(df, df.rows[i], "total_bio") > 0}) = 1

\* C16 as amended: a templated sentence is produced only in a district of at
\* least 11 rows, and in a district of at least 11 rows whose totals are 0
\* but for one row that row gets the sentence: the z-score is at most
\* (n - 1) / sqrt(n), which exceeds 3 exactly when n >= 11.
SentenceNeedsElevenRows ==
    (pc = "explained" /\ outcome = "returned") =>
        /\ HasSentence(scored) => Len(scored.rows) >= 11
        /\ (Len(scored.rows) >= 11 /\ OneOutlier(scored)) =>
               \A r \in RowsOf(scored) :
                   TotalBio(r) > 0 <=> Contains(r.anomaly_reason, "Biometric Updates")

\* a district of 11 rows, ten at 0 and one above, whose outlier is explained,
\* reached beside a district of 10 rows of the same pattern that is not
ElevenRowWitness ==
    /\ pc = "explained" /\ outcome = "returned"
    /\ Len(scored.rows) = 11
    /\ OneOutlier(scored)
    /\ HasSentence(scored)
    /\ ~HasSentence(generate_anomaly_explanations(
            DistrictTable(SubSeq(MapSeq(TotalBio, scored.rows), 2, 11))))

----------------------------------------------------------------------------
(* Column names after the renaming *)

\* C18: clean_dataframe never gives two distinct raw columns of a category
\* table the same name, so the cleaned table has no duplicate column names.
RenamingIsInjective ==
    Cleaned3 =>
        \A c \in CategorySet :
            \A i \in 1..Len(raw[c].vcols) : \A j \in 1..Len(raw[c].vcols) :
                (RawName(c, i) # RawName(c, j)) => (CleanName(c, i) # CleanName(c, j))
====
